---- MODULE Spec2Model ----
(***************************************************************************)
(* cfn-list: a model of the stack filter policy (filterStacks), of the     *)
(* template resource matcher (searchStackTemplate, checkProperties,        *)
(* getNestedProperty) and of the two commands that run the multi-stack     *)
(* search loop (cfn list with resource filters, cfn search).               *)
(***************************************************************************)
EXTENDS Integers, Sequences, FiniteSets, TLC

\* ------------------------------------------------------------------------
\* Bounds of the model
\* ------------------------------------------------------------------------
MaxFilterStacks == 2
MaxStacks == 3

\* ------------------------------------------------------------------------
\* Go strings package, on TLA+ strings
\* ------------------------------------------------------------------------
CharAt(s, i) == SubSeq(s, i, i)

HasPrefix(s, prefix) ==
    Len(s) >= Len(prefix) /\ SubSeq(s, 1, Len(prefix)) = prefix

HasSuffix(s, suffix) ==
    Len(s) >= Len(suffix) /\ SubSeq(s, Len(s) - Len(suffix) + 1, Len(s)) = suffix

Contains(s, substr) ==
    \/ Len(substr) = 0
    \/ \E i \in 1..(Len(s) - Len(substr) + 1) : SubSeq(s, i, i + Len(substr) - 1) = substr

\* strings.Index for a one-character separator; 0 when absent
Index(s, sep) ==
    IF \E i \in 1..Len(s) : CharAt(s, i) = sep
    THEN CHOOSE i \in 1..Len(s) :
            /\ CharAt(s, i) = sep
            /\ \A j \in 1..(i - 1) : CharAt(s, j) # sep
    ELSE 0

\* the letters of the model's stack names and name filters
LowerChar(c) ==
    CASE c = "A" -> "a"
      [] c = "B" -> "b"
      [] c = "D" -> "d"
      [] c = "M" -> "m"
      [] c = "P" -> "p"
      [] c = "Y" -> "y"
      [] OTHER -> c

RECURSIVE ToLower(_)
ToLower(s) ==
    IF Len(s) = 0 THEN s
    ELSE LowerChar(CharAt(s, 1)) \o ToLower(SubSeq(s, 2, Len(s)))

\* strings.SplitN(s, sep, 2) for a one-character separator
SplitN2(s, sep) ==
    LET i == Index(s, sep) IN
    IF i = 0 THEN << s >>
    ELSE << SubSeq(s, 1, i - 1), SubSeq(s, i + 1, Len(s)) >>

\* strings.Split(s, sep) for a one-character separator
RECURSIVE Split(_, _)
Split(s, sep) ==
    LET i == Index(s, sep) IN
    IF i = 0 THEN << s >>
    ELSE << SubSeq(s, 1, i - 1) >> \o Split(SubSeq(s, i + 1, Len(s)), sep)

Perms(S) ==
    { p \in [1..Cardinality(S) -> S] : \A a, b \in 1..Cardinality(S) : a # b => p[a] # p[b] }

SeqsUpTo(S, n) == UNION { [1..k -> S] : k \in 0..n }

\* ------------------------------------------------------------------------
\* Parsed documents: Go's interface{} values after json / yaml Unmarshal
\* ------------------------------------------------------------------------
Nil == [tag |-> "nil"]
Str(x) == [tag |-> "string", s |-> x]
Num(x) == [tag |-> "number", n |-> x]
Bool(x) == [tag |-> "bool", b |-> x]
List(x) == [tag |-> "list", items |-> x]
Map(x) == [tag |-> "map", m |-> x]
EmptyMap == << >>

IsMap(v) == v.tag = "map"
IsString(v) == v.tag = "string"

\* m[k] of a Go map: the zero value (nil interface) when the key is absent
Get(m, k) == IF k \in DOMAIN m THEN m[k] ELSE Nil

\* every key of the model's documents, in byte order (fmt prints maps sorted by key)
KeyOrder ==
    << "BucketName", "Properties", "Status", "Tags", "Type", "Versioning" >>

Digit(d) == CharAt("0123456789", d + 1)

RECURSIVE Itoa(_)
Itoa(n) ==
    IF n < 0 THEN "-" \o Itoa(0 - n)
    ELSE IF n < 10 THEN Digit(n)
    ELSE Itoa(n \div 10) \o Digit(n % 10)

RECURSIVE JoinSpace(_)
JoinSpace(ss) ==
    IF Len(ss) = 0 THEN ""
    ELSE IF Len(ss) = 1 THEN ss[1]
    ELSE ss[1] \o " " \o JoinSpace(Tail(ss))

\* fmt.Sprintf("%v", value)
RECURSIVE Sprint(_)
Sprint(v) ==
    CASE v.tag = "nil" -> "<nil>"
      [] v.tag = "string" -> v.s
      [] v.tag = "number" -> Itoa(v.n)
      [] v.tag = "bool" -> (IF v.b THEN "true" ELSE "false")
      [] v.tag = "list" ->
            "[" \o JoinSpace([ k \in 1..Len(v.items) |-> Sprint(v.items[k]) ]) \o "]"
      [] v.tag = "map" ->
            LET keys == SelectSeq(KeyOrder, LAMBDA k : k \in DOMAIN v.m) IN
            "map[" \o
            JoinSpace([ k \in 1..Len(keys) |-> keys[k] \o ":" \o Sprint(v.m[keys[k]]) ])
            \o "]"

\* ------------------------------------------------------------------------
\* The resource matcher: getNestedProperty, checkProperties,
\* searchStackTemplate (cmd list and cmd search carry one copy each)
\* ------------------------------------------------------------------------

\* the walk of getNestedProperty over the split path; nil when a step fails
RECURSIVE walkPartsPartial(_, _)
walkPartsPartial(current, parts) ==
    IF Len(parts) = 0 THEN current
    ELSE IF ~IsMap(current) THEN current
    ELSE IF Head(parts) \notin DOMAIN current.m THEN current
    ELSE walkPartsPartial(current.m[Head(parts)], Tail(parts))

RECURSIVE walkParts(_, _)
walkParts(current, parts) ==
    IF Len(parts) = 0 THEN current
    ELSE IF ~IsMap(current) THEN Nil
    ELSE IF Head(parts) \notin DOMAIN current.m THEN Nil
    ELSE walkParts(current.m[Head(parts)], Tail(parts))

getNestedProperty(properties, path) ==
    walkParts(Map(properties), Split(path, "."))

\* one filter of checkProperties: TRUE when the loop goes on to the next one
filterPassesNoNilTest(value, expectedValue) ==
    Sprint(value) = expectedValue

filterPasses(value, expectedValue) ==
    IF value.tag = "nil" THEN FALSE
    ELSE Sprint(value) = expectedValue

\* checkProperties with the filters ranged over in the order `order`
RECURSIVE checkPropertiesFromLeafKey(_, _, _, _)
checkPropertiesFromLeafKey(properties, filters, order, matchedProps) ==
    IF Len(order) = 0 THEN [ matched |-> TRUE, matchedProps |-> matchedProps ]
    ELSE LET key == Head(order)
             value == getNestedProperty(properties, key)
             parts == Split(key, ".")
         IN  IF ~filterPasses(value, filters[key])
             THEN [ matched |-> FALSE, matchedProps |-> EmptyMap ]
             ELSE checkPropertiesFromLeafKey(properties, filters, Tail(order),
                                             (parts[Len(parts)] :> value) @@ matchedProps)

RECURSIVE checkPropertiesFromPartial(_, _, _, _)
checkPropertiesFromPartial(properties, filters, order, matchedProps) ==
    IF Len(order) = 0 THEN [ matched |-> TRUE, matchedProps |-> matchedProps ]
    ELSE LET key == Head(order)
             value == getNestedProperty(properties, key)
         IN  IF ~filterPasses(value, filters[key])
             THEN [ matched |-> DOMAIN matchedProps # {}, matchedProps |-> matchedProps ]
             ELSE checkPropertiesFromPartial(properties, filters, Tail(order),
                                             (key :> value) @@ matchedProps)

RECURSIVE checkPropertiesFrom(_, _, _, _)
checkPropertiesFrom(properties, filters, order, matchedProps) ==
    IF Len(order) = 0 THEN [ matched |-> TRUE, matchedProps |-> matchedProps ]
    ELSE LET key == Head(order)
             value == getNestedProperty(properties, key)
         IN  IF ~filterPasses(value, filters[key])
             THEN [ matched |-> FALSE, matchedProps |-> EmptyMap ]
             ELSE checkPropertiesFrom(properties, filters, Tail(order),
                                      (key :> value) @@ matchedProps)

checkPropertiesAny(properties, filters, order) ==
    IF \E k \in 1..Len(order) :
          filterPasses(getNestedProperty(properties, order[k]), filters[order[k]])
    THEN [ matched |-> TRUE,
           matchedProps |-> [ key \in { q \in DOMAIN filters :
                                          filterPasses(getNestedProperty(properties, q), filters[q]) }
                              |-> getNestedProperty(properties, key) ] ]
    ELSE [ matched |-> FALSE, matchedProps |-> EmptyMap ]

checkProperties(properties, filters, order) ==
    checkPropertiesFrom(properties, filters, order, EmptyMap)

\* the type test of cmd list's searchStackTemplate: TRUE when the resource is skipped
typeSkipsPrefix(currentType, resType) ==
    resType # "" /\ ~HasPrefix(resType, currentType)

typeSkips(currentType, resType) ==
    resType # "" /\ currentType # resType

\* the type test of cmd search's searchStackTemplate
searchTypeSkips(resType, resourceType) ==
    resType # resourceType

\* the body of `for logicalID, resourceData := range resources`:
\* the matches it appends (none or one)
resourceMatches(command, logicalID, resourceData, resType, resName, propertyFilters, forder) ==
    IF ~IsMap(resourceData) THEN << >>
    ELSE LET resourceMap == resourceData.m
             currentType == Get(resourceMap, "Type")
             properties == Get(resourceMap, "Properties")
         IN
         IF ~IsString(currentType) THEN << >>
         ELSE IF command = "list" /\ typeSkips(currentType.s, resType) THEN << >>
         ELSE IF command = "search" /\ searchTypeSkips(currentType.s, resType) THEN << >>
         ELSE IF command = "list" /\ resName # "" /\ ~Contains(logicalID, resName) THEN << >>
         ELSE IF Cardinality(DOMAIN propertyFilters) > 0
              THEN IF ~IsMap(properties) THEN << >>
                   ELSE LET r == checkProperties(properties.m, propertyFilters, forder) IN
                        IF ~r.matched THEN << >>
                        ELSE << [ logicalID |-> logicalID,
                                  resourceType |-> currentType.s,
                                  matchedProperties |-> r.matchedProps ] >>
              ELSE << [ logicalID |-> logicalID,
                        resourceType |-> currentType.s,
                        matchedProperties |-> EmptyMap ] >>

\* the range loop over the Resources mapping, in the iteration order `rorder`
RECURSIVE searchResourcesBreakOnMalformed(_, _, _, _, _, _, _)
searchResourcesBreakOnMalformed(command, resources, rorder, resType, resName, propertyFilters, forder) ==
    IF Len(rorder) = 0 THEN << >>
    ELSE IF ~IsMap(resources[Head(rorder)]) THEN << >>
    ELSE resourceMatches(command, Head(rorder), resources[Head(rorder)],
                         resType, resName, propertyFilters, forder)
         \o searchResourcesBreakOnMalformed(command, resources, Tail(rorder),
                                            resType, resName, propertyFilters, forder)

RECURSIVE searchResources(_, _, _, _, _, _, _)
searchResources(command, resources, rorder, resType, resName, propertyFilters, forder) ==
    IF Len(rorder) = 0 THEN << >>
    ELSE resourceMatches(command, Head(rorder), resources[Head(rorder)],
                         resType, resName, propertyFilters, forder)
         \o searchResources(command, resources, Tail(rorder),
                            resType, resName, propertyFilters, forder)

\* ------------------------------------------------------------------------
\* GetTemplate responses and the JSON-then-YAML parse
\* ------------------------------------------------------------------------
\* A template body is kept as its syntax and the document it denotes:
\* "empty" (no text), "invalid" (neither JSON nor YAML), "json", "yaml".
FetchError == [ err |-> TRUE, body |-> [ syntax |-> "empty", doc |-> Nil ] ]
EmptyBody == [ err |-> FALSE, body |-> [ syntax |-> "empty", doc |-> Nil ] ]
InvalidBody == [ err |-> FALSE, body |-> [ syntax |-> "invalid", doc |-> Nil ] ]
JsonBody(d) == [ err |-> FALSE, body |-> [ syntax |-> "json", doc |-> d ] ]
YamlBody(d) == [ err |-> FALSE, body |-> [ syntax |-> "yaml", doc |-> d ] ]

\* Unmarshal into a map[string]interface{}: a mapping fills it, null leaves
\* it nil, any other top-level value is a type error
intoMap(doc) ==
    IF IsMap(doc) THEN [ ok |-> TRUE, template |-> doc.m ]
    ELSE IF doc.tag = "nil" THEN [ ok |-> TRUE, template |-> EmptyMap ]
    ELSE [ ok |-> FALSE, template |-> EmptyMap ]

jsonUnmarshal(body) ==
    IF body.syntax = "json" THEN intoMap(body.doc)
    ELSE [ ok |-> FALSE, template |-> EmptyMap ]

\* JSON text is YAML flow syntax, so YAML reads both
yamlUnmarshal(body) ==
    IF body.syntax \in { "json", "yaml" } THEN intoMap(body.doc)
    ELSE [ ok |-> FALSE, template |-> EmptyMap ]

\* "try JSON first, then YAML"
parseTemplate(body) ==
    IF jsonUnmarshal(body).ok THEN jsonUnmarshal(body) ELSE yamlUnmarshal(body)

\* the Resources mapping the range loop of searchStackTemplate runs over,
\* empty when the loop is not reached
resourcesOf(response) ==
    IF response.err \/ response.body.syntax = "empty" \/ ~parseTemplate(response.body).ok
    THEN EmptyMap
    ELSE LET resources == Get(parseTemplate(response.body).template, "Resources") IN
         IF IsMap(resources) THEN resources.m ELSE EmptyMap

\* searchStackTemplate: (matches, err) of one stack's GetTemplate response
searchStackTemplate(command, response, rorder, resType, resName, propertyFilters, forder) ==
    IF response.err THEN [ err |-> TRUE, matches |-> << >> ]
    ELSE IF response.body.syntax = "empty" THEN [ err |-> TRUE, matches |-> << >> ]
    ELSE IF ~parseTemplate(response.body).ok THEN [ err |-> TRUE, matches |-> << >> ]
    ELSE IF ~IsMap(Get(parseTemplate(response.body).template, "Resources"))
         THEN [ err |-> FALSE, matches |-> << >> ]
    ELSE [ err |-> FALSE,
           matches |-> searchResources(command, resourcesOf(response), rorder,
                                       resType, resName, propertyFilters, forder) ]

\* ------------------------------------------------------------------------
\* Status predicates and filterStacks (the flag-driven stack filter)
\* ------------------------------------------------------------------------
isActiveStatus(status) ==
    status \in { "CREATE_COMPLETE", "UPDATE_COMPLETE", "ROLLBACK_COMPLETE",
                 "UPDATE_ROLLBACK_COMPLETE", "IMPORT_COMPLETE",
                 "IMPORT_ROLLBACK_COMPLETE" }

isCompleteStatus(status) == HasSuffix(status, "_COMPLETE")

isDeletedStatus(status) == HasPrefix(status, "DELETE_")

isInProgressStatus(status) == HasSuffix(status, "_IN_PROGRESS")

\* the name test at the head of the loop body: TRUE when the stack is kept
NameKeeps(name, nameFilter) ==
    nameFilter = "" \/ Contains(ToLower(name), ToLower(nameFilter))

\* the status decision of one loop iteration: TRUE when the stack is appended
StatusKeepsAllFlags(status, active, complete, deleted, inProgress) ==
    IF ~active /\ ~complete /\ ~deleted /\ ~inProgress
    THEN ~HasPrefix(status, "DELETE_COMPLETE")
    ELSE /\ (active => isActiveStatus(status))
         /\ (complete => isCompleteStatus(status))
         /\ (deleted => isDeletedStatus(status))
         /\ (inProgress => isInProgressStatus(status))

StatusKeeps(status, active, complete, deleted, inProgress) ==
    IF ~active /\ ~complete /\ ~deleted /\ ~inProgress
    THEN ~HasPrefix(status, "DELETE_COMPLETE")
    ELSE \/ active /\ isActiveStatus(status)
         \/ complete /\ isCompleteStatus(status)
         \/ deleted /\ isDeletedStatus(status)
         \/ inProgress /\ isInProgressStatus(status)

\* ------------------------------------------------------------------------
\* State
\* ------------------------------------------------------------------------
VARIABLES
    \* filterStacks
    fpc,            \* "loop", "done"; "off" outside SpecFilter
    fStacks,        \* stacks argument
    fFlags,         \* active, complete, deleted, inProgress arguments
    fNameFilter,    \* nameFilter argument
    fi,             \* index of the next stack of the range loop
    filtered,       \* filtered accumulator / return value
    \* one call of searchStackTemplate
    mpc,            \* "call", "returned"; "off" outside SpecMatch
    mCommand,       \* "list" (cmd list's copy) or "search" (cmd search's copy)
    mResponse,      \* what GetTemplate answers
    mResType,       \* resType / resourceType argument
    mResName,       \* resName argument (cmd list only)
    mFilters,       \* propertyFilters argument
    mResult,        \* (matches, err) returned
    \* one call of getNestedProperty
    gpc,            \* "call", "returned"; "off" outside SpecResolve
    gProperties,    \* properties argument
    gPath,          \* path argument
    gResult,        \* the value returned
    \* a run of `cfn list` or `cfn search`
    pc,             \* "start", "parse", "list", "plain", "check", "loop", "done"; "off" outside Spec
    command,        \* "list" or "search"
    nameTwice,      \* cmd list: a positional name and --name are both given
    properties,     \* the --property tokens
    resourceType,   \* --type (list) or the positional argument (search)
    resourceName,   \* --resource-name (list)
    namesOnly,      \* --names-only (list)
    stacks,         \* what listStacks returned
    propertyFilters,\* the parsed property filters
    idx,            \* index of the next stack of the search loop
    matchingStacks, \* the Search Result
    calls,          \* the service calls made so far, in order
    fetched,        \* per GetTemplate call: the stack's index and the response
    stdout,         \* lines written to standard output
    stderr,         \* chunks written to standard error
    exitCode        \* -1 while running

fvars == << fpc, fStacks, fFlags, fNameFilter, fi, filtered >>
mvars == << mpc, mCommand, mResponse, mResType, mResName, mFilters, mResult >>
cvars == << pc, command, nameTwice, properties, resourceType, resourceName, namesOnly,
            stacks, propertyFilters, idx, matchingStacks, calls, fetched,
            stdout, stderr, exitCode >>
gvars == << gpc, gProperties, gPath, gResult >>
vars == << fvars, mvars, gvars, cvars >>

FilterOff ==
    /\ fpc = "off" /\ fStacks = << >> /\ fFlags = << >> /\ fNameFilter = ""
    /\ fi = 0 /\ filtered = << >>

MatchOff ==
    /\ mpc = "off" /\ mCommand = "" /\ mResponse = FetchError /\ mResType = ""
    /\ mResName = "" /\ mFilters = EmptyMap /\ mResult = << >>

ResolveOff ==
    /\ gpc = "off" /\ gProperties = EmptyMap /\ gPath = "" /\ gResult = Nil

CliOff ==
    /\ pc = "off" /\ command = "" /\ nameTwice = FALSE /\ properties = << >>
    /\ resourceType = "" /\ resourceName = "" /\ namesOnly = FALSE
    /\ stacks = << >> /\ propertyFilters = EmptyMap /\ idx = 0
    /\ matchingStacks = << >> /\ calls = << >> /\ fetched = << >>
    /\ stdout = << >> /\ stderr = << >> /\ exitCode = -1

\* ------------------------------------------------------------------------
\* SpecFilter: filterStacks applied to every bounded input
\* ------------------------------------------------------------------------
\* statuses of the service that realise every combination of the four
\* predicates a status can satisfy
StackStatuses ==
    { "CREATE_COMPLETE", "CREATE_FAILED", "CREATE_IN_PROGRESS",
      "DELETE_COMPLETE", "DELETE_IN_PROGRESS", "DELETE_FAILED",
      "UPDATE_ROLLBACK_COMPLETE", "UPDATE_COMPLETE_CLEANUP_IN_PROGRESS" }

FilterStackNames == { "MyApp", "db" }

NameFilters == { "", "APP" }

StackSummaries ==
    [ StackName : FilterStackNames, StackStatus : StackStatuses ]

FilterInit ==
    /\ fpc = "loop"
    /\ fStacks \in SeqsUpTo(StackSummaries, MaxFilterStacks)
    /\ fFlags \in [ active : BOOLEAN, complete : BOOLEAN,
                    deleted : BOOLEAN, inProgress : BOOLEAN ]
    /\ fNameFilter \in NameFilters
    /\ fi = 1
    /\ filtered = << >>
    /\ MatchOff /\ ResolveOff /\ CliOff

\* one iteration of `for _, stack := range stacks`
FilterStep ==
    /\ fpc = "loop"
    /\ fi <= Len(fStacks)
    /\ LET stack == fStacks[fi] IN
         filtered' =
            IF /\ NameKeeps(stack.StackName, fNameFilter)
               /\ StatusKeeps(stack.StackStatus, fFlags.active, fFlags.complete,
                              fFlags.deleted, fFlags.inProgress)
            THEN Append(filtered, stack)
            ELSE filtered
    /\ fi' = fi + 1
    /\ UNCHANGED << fpc, fStacks, fFlags, fNameFilter, mvars, gvars, cvars >>

\* `return filtered`
FilterReturn ==
    /\ fpc = "loop"
    /\ fi > Len(fStacks)
    /\ fpc' = "done"
    /\ UNCHANGED << fStacks, fFlags, fNameFilter, fi, filtered, mvars, gvars, cvars >>

FilterNext == FilterStep \/ FilterReturn

SpecFilter == FilterInit /\ [][FilterNext]_vars

\* ------------------------------------------------------------------------
\* SpecMatch: searchStackTemplate applied to every bounded input
\* ------------------------------------------------------------------------
Bucket == "AWS::S3::Bucket"
BucketPolicy == "AWS::S3::BucketPolicy"

\* resource declarations: well-formed ones and the malformed shapes
ResourceNodes ==
    { Str("scalar"),
      Map("Properties" :> Map("BucketName" :> Str("foo"))),
      Map("Type" :> Num(1)),
      Map("Type" :> Str(Bucket) @@
          "Properties" :> Map("BucketName" :> Str("foo") @@
                              "Versioning" :> Map("Status" :> Str("Enabled")) @@
                              "Tags" :> Nil)),
      Map("Type" :> Str(Bucket) @@
          "Properties" :> Map("BucketName" :> Str("foo") @@
                              "Versioning" :> Str("Enabled"))),
      Map("Type" :> Str(Bucket) @@ "Properties" :> Str("oops")),
      Map("Type" :> Str(BucketPolicy)) }

LogicalIDs == { "LogBucket", "Data" }

ResourceMaps == UNION { [ ids -> ResourceNodes ] : ids \in SUBSET LogicalIDs }

MatchResponses ==
    { JsonBody(Map("Resources" :> Map(r))) : r \in ResourceMaps }
    \cup { YamlBody(Map("Resources" :> Map(r))) : r \in [ { "LogBucket" } -> ResourceNodes ] }
    \cup { JsonBody(Map("Resources" :> Str("none"))), JsonBody(Map(EmptyMap)),
           JsonBody(Nil), JsonBody(List(<< >>)), FetchError, EmptyBody, InvalidBody }

FilterKeys == { "BucketName", "Versioning.Status", "Tags" }

ExpectedValues == { "foo", "Enabled", "<nil>" }

PropertyFilterMaps == UNION { [ keys -> ExpectedValues ] : keys \in SUBSET FilterKeys }

MatchInit ==
    /\ mpc = "call"
    /\ mCommand \in { "list", "search" }
    /\ mResponse \in MatchResponses
    /\ mResType \in { "", Bucket, BucketPolicy }
    /\ mResName \in (IF mCommand = "list" THEN { "", "Log" } ELSE { "" })
    /\ mFilters \in PropertyFilterMaps
    /\ mResult = << >>
    /\ FilterOff /\ ResolveOff /\ CliOff

\* the call and its return; the two range loops over Go maps run in any order
MatchCall ==
    /\ mpc = "call"
    /\ \E rorder \in Perms(DOMAIN resourcesOf(mResponse)), forder \in Perms(DOMAIN mFilters) :
          mResult' = searchStackTemplate(mCommand, mResponse, rorder,
                                         mResType, mResName, mFilters, forder)
    /\ mpc' = "returned"
    /\ UNCHANGED << mCommand, mResponse, mResType, mResName, mFilters, fvars, gvars, cvars >>

MatchNext == MatchCall

SpecMatch == MatchInit /\ [][MatchNext]_vars

\* ------------------------------------------------------------------------
\* SpecResolve: getNestedProperty applied to every bounded input
\* ------------------------------------------------------------------------
\* Properties mappings: scalars, a nested mapping, a null leaf, a list
PropertyMaps ==
    { EmptyMap,
      "BucketName" :> Str("foo"),
      "BucketName" :> Num(1),
      "BucketName" :> Str("foo") @@ "Versioning" :> Map("Status" :> Str("Enabled")),
      "Versioning" :> Map("Status" :> Map("Tags" :> Bool(TRUE))),
      "Versioning" :> Map(EmptyMap) @@ "Tags" :> Nil,
      "Tags" :> List(<< Str("foo") >>) @@ "Status" :> Str("Enabled") }

\* paths of one to three segments, and paths with an empty segment
PropertyPaths ==
    { "BucketName", "Versioning", "Tags", "Status", "Versioning.Status",
      "BucketName.Status", "Tags.Status", "Status.Versioning", "Versioning.Tags",
      "Versioning.Status.Tags", "BucketName.Status.Tags", "", ".Status", "Versioning." }

ResolveInit ==
    /\ gpc = "call"
    /\ gProperties \in PropertyMaps
    /\ gPath \in PropertyPaths
    /\ gResult = Nil
    /\ FilterOff /\ MatchOff /\ CliOff

\* the call and its return
ResolveCall ==
    /\ gpc = "call"
    /\ gResult' = getNestedProperty(gProperties, gPath)
    /\ gpc' = "returned"
    /\ UNCHANGED << gProperties, gPath, fvars, mvars, cvars >>

ResolveNext == ResolveCall

SpecResolve == ResolveInit /\ [][ResolveNext]_vars

\* ------------------------------------------------------------------------
\* Spec: a run of `cfn list` (runList, runResourceSearch) or of
\* `cfn search` (runSearch)
\* ------------------------------------------------------------------------
\* StackSummary.StackName is a *string
NilName == [ set |-> FALSE, v |-> "" ]
Name(x) == [ set |-> TRUE, v |-> x ]

CliStackSummaries == { [ StackName |-> n ] : n \in { NilName, Name("s1"), Name("s2") } }

ListResults ==
    { [ err |-> TRUE, stacks |-> << >> ] }
    \cup { [ err |-> FALSE, stacks |-> ss ] : ss \in SeqsUpTo(CliStackSummaries, MaxStacks) }

\* what GetTemplate may answer for a stack
CliResponses ==
    { FetchError, EmptyBody, InvalidBody,
      JsonBody(Map("Resources" :> Map(
          "LogBucket" :> Map("Type" :> Str(Bucket) @@
                             "Properties" :> Map("BucketName" :> Str("foo"))) @@
          "Data" :> Map("Type" :> Str(BucketPolicy))))),
      YamlBody(Map("Resources" :> Map(
          "Data" :> Map("Type" :> Str(Bucket) @@
                        "Properties" :> Map("BucketName" :> Str("bar")))))) }

PropertyArgs ==
    { << >>, << "BucketName=foo" >>, << "BucketName=foo", "Versioning.Status" >> }

\* the "Parse property filters" loop: the filters, or the first token
\* without "="
RECURSIVE parseFrom(_, _)
parseFrom(props, filters) ==
    IF Len(props) = 0 THEN [ ok |-> TRUE, bad |-> "", filters |-> filters ]
    ELSE LET parts == SplitN2(Head(props), "=") IN
         IF Len(parts) # 2 THEN [ ok |-> FALSE, bad |-> Head(props), filters |-> filters ]
         ELSE parseFrom(Tail(props), (parts[1] :> parts[2]) @@ filters)

parsePropertyFilters(props) == parseFrom(props, EmptyMap)

isResourceSearch == resourceType # "" \/ resourceName # "" \/ Len(properties) > 0

Quote(x) == "\"" \o x \o "\""

RECURSIVE Flatten(_)
Flatten(ss) == IF Len(ss) = 0 THEN << >> ELSE Head(ss) \o Flatten(Tail(ss))

RECURSIVE Concat(_)
Concat(ss) == IF Len(ss) = 0 THEN "" ELSE Head(ss) \o Concat(Tail(ss))

\* the loop body after searchStackTemplate returned r: the new matchingStacks
accumulateDropOnError(ms, stackName, r) ==
    IF r.err THEN << >>
    ELSE IF Len(r.matches) > 0
         THEN Append(ms, [ stackName |-> stackName, resources |-> r.matches ])
         ELSE ms

accumulatePrepend(ms, stackName, r) ==
    IF r.err THEN ms
    ELSE IF Len(r.matches) > 0
         THEN << [ stackName |-> stackName, resources |-> r.matches ] >> \o ms
         ELSE ms

accumulateAlways(ms, stackName, r) ==
    IF r.err THEN ms
    ELSE Append(ms, [ stackName |-> stackName, resources |-> r.matches ])

accumulate(ms, stackName, r) ==
    IF r.err THEN ms
    ELSE IF Len(r.matches) > 0
         THEN Append(ms, [ stackName |-> stackName, resources |-> r.matches ])
         ELSE ms

\* where the range loop goes after an iteration: `continue` in every case
nextIndexBreakOnError(i, r, n) == IF r.err THEN n + 1 ELSE i + 1

nextIndex(i, r, n) == i + 1

\* the lines of one resource match
resourceLines(resource, porder) ==
    << "  - " \o resource.logicalID \o " (" \o resource.resourceType \o ")" >>
    \o (IF DOMAIN resource.matchedProperties = {} THEN << >>
        ELSE [ k \in 1..Len(porder) |->
                 "      " \o porder[k] \o ": " \o Sprint(resource.matchedProperties[porder[k]]) ])

\* "Found N stack(s)..." and the detail listing
detailLines(ms, porder) ==
    << "Found " \o Itoa(Len(ms)) \o " stack(s) with matching resources:", "" >>
    \o Flatten([ k \in 1..Len(ms) |->
                   << "Stack: " \o ms[k].stackName >>
                   \o Flatten([ j \in 1..Len(ms[k].resources) |->
                                  resourceLines(ms[k].resources[j], porder) ])
                   \o << "" >> ])

nameLines(ms) == [ k \in 1..Len(ms) |-> ms[k].stackName ]

noStacksFoundList(resType, resName, filters, porder) ==
    "No stacks found"
    \o (IF resType # "" THEN " containing resource type " \o Quote(resType) ELSE "")
    \o (IF resName # "" THEN " containing resource name " \o Quote(resName) ELSE "")
    \o (IF DOMAIN filters # {}
        THEN " with properties:"
             \o Concat([ k \in 1..Len(porder) |->
                           " " \o porder[k] \o "=" \o Quote(filters[porder[k]]) ])
        ELSE "")

noStacksFoundSearch(resType, filters) ==
    "No stacks found containing resource type " \o Quote(resType)
    \o (IF DOMAIN filters # {} THEN " with specified properties" ELSE "")

\* what runResourceSearch writes to standard output after the loop
listReportNoGuard(names, ms, resType, resName, filters, porder) ==
    IF Len(ms) = 0
    THEN << noStacksFoundList(resType, resName, filters, porder) >>
    ELSE IF names THEN nameLines(ms) ELSE detailLines(ms, porder)

listReport(names, ms, resType, resName, filters, porder) ==
    IF Len(ms) = 0
    THEN IF ~names THEN << noStacksFoundList(resType, resName, filters, porder) >> ELSE << >>
    ELSE IF names THEN nameLines(ms) ELSE detailLines(ms, porder)

\* what runSearch writes to standard output after the loop
searchReport(ms, resType, filters, porder) ==
    IF Len(ms) = 0 THEN << noStacksFoundSearch(resType, filters) >>
    ELSE detailLines(ms, porder)

\* the exit status after the report: both functions return normally
reportExitFailsOnEmpty(ms) == IF Len(ms) = 0 THEN 1 ELSE 0

reportExit(ms) == 0

searchingList(n, resType, resName) ==
    "Searching " \o Itoa(n) \o " stacks"
    \o (IF resType # "" THEN " for resource type " \o Quote(resType) ELSE "")
    \o (IF resName # "" THEN " for resource name " \o Quote(resName) ELSE "")
    \o "..."

searchingSearch(n, resType) ==
    "Searching " \o Itoa(n) \o " stacks for resource type " \o Quote(resType) \o "..."

Init ==
    /\ pc = "start"
    /\ command \in { "list", "search" }
    /\ nameTwice \in (IF command = "list" THEN BOOLEAN ELSE { FALSE })
    /\ properties \in PropertyArgs
    /\ resourceType \in { "", Bucket }
    /\ resourceName \in (IF command = "list" THEN { "", "Log" } ELSE { "" })
    /\ namesOnly \in (IF command = "list" THEN BOOLEAN ELSE { FALSE })
    /\ stacks = << >>
    /\ propertyFilters = EmptyMap
    /\ idx = 0
    /\ matchingStacks = << >>
    /\ calls = << >>
    /\ fetched = << >>
    /\ stdout = << >>
    /\ stderr = << >>
    /\ exitCode = -1
    /\ FilterOff /\ MatchOff /\ ResolveOff

\* fatalf: the message goes to standard error and the process exits 1
fatalf(msg) ==
    /\ stderr' = Append(stderr, msg)
    /\ exitCode' = 1
    /\ pc' = "done"

\* runList's name check, then mustClient in both commands
Connect ==
    /\ pc = "start"
    /\ IF command = "list" /\ nameTwice
       THEN fatalf("Error: name filter specified both as argument and --name flag")
       ELSE \E ok \in BOOLEAN :
               IF ok
               THEN /\ pc' = (IF command = "list" THEN "list" ELSE "parse")
                    /\ UNCHANGED << stderr, exitCode >>
               ELSE fatalf("failed to load config")
    /\ UNCHANGED << command, nameTwice, properties, resourceType, resourceName, namesOnly,
                    stacks, propertyFilters, idx, matchingStacks, calls, fetched, stdout,
                    fvars, mvars, gvars >>

\* listStacks, and runList's choice between the table and the resource search
ListStacks ==
    /\ pc = "list"
    /\ calls' = Append(calls, [ op |-> "ListStacks", name |-> "" ])
    /\ \E result \in ListResults :
          IF result.err
          THEN fatalf("failed to list stacks") /\ UNCHANGED stacks
          ELSE /\ stacks' = result.stacks
               /\ pc' = (IF command = "search" THEN "check"
                         ELSE IF isResourceSearch THEN "parse" ELSE "plain")
               /\ UNCHANGED << stderr, exitCode >>
    /\ UNCHANGED << command, nameTwice, properties, resourceType, resourceName, namesOnly,
                    propertyFilters, idx, matchingStacks, fetched, stdout, fvars, mvars, gvars >>

\* the "Parse property filters" block at the head of runSearch (before
\* listStacks) and of runResourceSearch (after it)
ParseProperties ==
    /\ pc = "parse"
    /\ LET r == parsePropertyFilters(properties) IN
       IF ~r.ok
       THEN /\ fatalf("invalid property format " \o Quote(r.bad) \o ", expected key=value")
            /\ UNCHANGED propertyFilters
       ELSE /\ propertyFilters' = r.filters
            /\ pc' = (IF command = "search" THEN "list" ELSE "check")
            /\ UNCHANGED << stderr, exitCode >>
    /\ UNCHANGED << command, nameTwice, properties, resourceType, resourceName, namesOnly,
                    stacks, idx, matchingStacks, calls, fetched, stdout, fvars, mvars, gvars >>

\* runList without resource filters: names, or the table
PlainList ==
    /\ pc = "plain"
    /\ IF namesOnly
       THEN /\ stdout' = [ k \in 1..Len(SelectSeq(stacks, LAMBDA st : st.StackName.set)) |->
                             SelectSeq(stacks, LAMBDA st : st.StackName.set)[k].StackName.v ]
            /\ exitCode' = 0
            /\ UNCHANGED stderr
       ELSE IF Len(stacks) = 0
            THEN /\ stderr' = Append(stderr, "No stacks found")
                 /\ exitCode' = 1
                 /\ UNCHANGED stdout
            ELSE /\ stdout' = << "printStacks" >>
                 /\ exitCode' = 0
                 /\ UNCHANGED stderr
    /\ pc' = "done"
    /\ UNCHANGED << command, nameTwice, properties, resourceType, resourceName, namesOnly,
                    stacks, propertyFilters, idx, matchingStacks, calls, fetched,
                    fvars, mvars, gvars >>

\* `if len(stacks) == 0` and the "Searching ..." message
CheckStacks ==
    /\ pc = "check"
    /\ IF Len(stacks) = 0
       THEN /\ stderr' = Append(stderr, "No stacks to search")
            /\ exitCode' = 1
            /\ pc' = "done"
            /\ UNCHANGED << stdout, idx >>
       ELSE /\ pc' = "loop"
            /\ idx' = 1
            /\ UNCHANGED exitCode
            /\ IF command = "search"
               THEN /\ stdout' = stdout \o << searchingSearch(Len(stacks), resourceType), "" >>
                    /\ UNCHANGED stderr
               ELSE /\ stderr' = IF namesOnly THEN stderr
                                 ELSE Append(stderr, searchingList(Len(stacks), resourceType,
                                                                   resourceName))
                    /\ UNCHANGED stdout
    /\ UNCHANGED << command, nameTwice, properties, resourceType, resourceName, namesOnly,
                    stacks, propertyFilters, matchingStacks, calls, fetched, fvars, mvars, gvars >>

\* one iteration of `for _, stack := range stacks`, GetTemplate answering
\* with one of `responses`
LoopIterOver(responses) ==
    /\ pc = "loop"
    /\ idx <= Len(stacks)
    /\ IF ~stacks[idx].StackName.set
       THEN /\ idx' = idx + 1
            /\ UNCHANGED << matchingStacks, calls, fetched >>
       ELSE \E response \in responses :
            \E rorder \in Perms(DOMAIN resourcesOf(response)),
               forder \in Perms(DOMAIN propertyFilters) :
               LET stackName == stacks[idx].StackName.v
                   r == searchStackTemplate(command, response, rorder, resourceType,
                                            resourceName, propertyFilters, forder)
               IN  /\ calls' = Append(calls, [ op |-> "GetTemplate", name |-> stackName ])
                   /\ fetched' = Append(fetched, [ index |-> idx, response |-> response ])
                   /\ matchingStacks' = accumulate(matchingStacks, stackName, r)
                   /\ idx' = nextIndex(idx, r, Len(stacks))
    /\ UNCHANGED << pc, command, nameTwice, properties, resourceType, resourceName,
                    namesOnly, stacks, propertyFilters, stdout, stderr, exitCode,
                    fvars, mvars, gvars >>

LoopIter == LoopIterOver(CliResponses)

\* after the loop: the report, and the return. The maps of every printed
\* line are ranged over in one order, porder.
Report ==
    /\ pc = "loop"
    /\ idx > Len(stacks)
    /\ \E porder \in Perms(DOMAIN propertyFilters) :
          IF command = "search"
          THEN /\ stdout' = stdout \o searchReport(matchingStacks, resourceType,
                                                   propertyFilters, porder)
               /\ UNCHANGED stderr
          ELSE /\ stdout' = stdout \o listReport(namesOnly, matchingStacks, resourceType,
                                                 resourceName, propertyFilters, porder)
               /\ stderr' = IF namesOnly THEN stderr ELSE Append(stderr, "\\033[1A\\033[2K")
    /\ exitCode' = reportExit(matchingStacks)
    /\ pc' = "done"
    /\ UNCHANGED << command, nameTwice, properties, resourceType, resourceName, namesOnly,
                    stacks, propertyFilters, idx, matchingStacks, calls, fetched,
                    fvars, mvars, gvars >>

Next ==
    \/ Connect
    \/ ListStacks
    \/ ParseProperties
    \/ PlainList
    \/ CheckStacks
    \/ LoopIter
    \/ Report

Spec == Init /\ [][Next]_vars

\* ------------------------------------------------------------------------
\* SpecSearch: the resource search of both commands from its first line
\* (runResourceSearch as runList calls it, runSearch after mustClient), over
\* more --property tokens and more templates than Spec
\* ------------------------------------------------------------------------
SearchPropertyArgs ==
    { << >>, << "BucketName=foo" >>, << "Versioning.Status" >>, << "=foo" >>,
      << "Versioning..Status=Enabled" >>, << ".BucketName=foo" >>, << "BucketName.=foo" >> }

\* the responses of Spec, and a template without a Resources section
SearchResponses == CliResponses \cup { JsonBody(Map(EmptyMap)) }

SearchInit ==
    /\ pc = "parse"
    /\ command \in { "list", "search" }
    /\ nameTwice = FALSE
    /\ properties \in SearchPropertyArgs
    /\ resourceType = Bucket
    /\ resourceName = ""
    /\ namesOnly = FALSE
    /\ IF command = "list"
       THEN /\ stacks \in { r.stacks : r \in { l \in ListResults : ~l.err } }
            /\ calls = << [ op |-> "ListStacks", name |-> "" ] >>
       ELSE /\ stacks = << >>
            /\ calls = << >>
    /\ propertyFilters = EmptyMap
    /\ idx = 0
    /\ matchingStacks = << >>
    /\ fetched = << >>
    /\ stdout = << >>
    /\ stderr = << >>
    /\ exitCode = -1
    /\ FilterOff /\ MatchOff /\ ResolveOff

SearchIter == LoopIterOver(SearchResponses)

SearchNext ==
    \/ ParseProperties
    \/ ListStacks
    \/ CheckStacks
    \/ SearchIter
    \/ Report

SpecSearch == SearchInit /\ [][SearchNext]_vars

\* ------------------------------------------------------------------------
\* C1, C2, C3, C4, C5, C8: the multi-stack search loop and the commands
\* ------------------------------------------------------------------------
LoopEntered == idx >= 1

LastErr == IF Len(stderr) = 0 THEN "" ELSE stderr[Len(stderr)]

Rejected == HasPrefix(LastErr, "invalid property format")
ListFailed == LastErr = "failed to list stacks"
NoStacksToSearch == LastErr = "No stacks to search"
ConfigFailed == LastErr = "failed to load config"

\* a run of cfn search, or of cfn list with resource filters
SearchRun == command = "search" \/ (command = "list" /\ isResourceSearch)

\* the search code is running or has run: runSearch from its first line,
\* runResourceSearch from runList's call of it
InSearchCode ==
    \/ command = "search"
    \/ command = "list" /\ isResourceSearch /\ calls # << >> /\ ~ListFailed

Named(st) == st.StackName.set

\* a stack that cannot be read: the fetch fails, the body is empty, or the
\* body is neither JSON nor YAML of a mapping
Unreadable(e) ==
    \/ e.response.err
    \/ e.response.body.syntax = "empty"
    \/ ~parseTemplate(e.response.body).ok

\* the result of searching, one after the other, only the stacks of
\* `entries` (the Go maps ranged over in some fixed order)
RECURSIVE SearchOnly(_)
SearchOnly(entries) ==
    IF Len(entries) = 0 THEN << >>
    ELSE LET e == Head(entries)
             r == searchStackTemplate(command, e.response,
                     CHOOSE o \in Perms(DOMAIN resourcesOf(e.response)) : TRUE,
                     resourceType, resourceName, propertyFilters,
                     CHOOSE o \in Perms(DOMAIN propertyFilters) : TRUE)
         IN  (IF Len(r.matches) > 0
              THEN << [ stackName |-> stacks[e.index].StackName.v, resources |-> r.matches ] >>
              ELSE << >>)
             \o SearchOnly(Tail(entries))

\* the same Stack Matches in the same order, each with the same Resource
\* Matches (whose order within a stack is the map iteration order)
SameResult(a, b) ==
    /\ Len(a) = Len(b)
    /\ \A k \in 1..Len(a) :
          /\ a[k].stackName = b[k].stackName
          /\ Len(a[k].resources) = Len(b[k].resources)
          /\ { a[k].resources[j] : j \in 1..Len(a[k].resources) }
               = { b[k].resources[j] : j \in 1..Len(b[k].resources) }

\* C1: per-stack failure isolation. Whatever subset of the stacks cannot be
\* read, the loop runs to the end of the list and exits 0, and its result is
\* the result of searching only the stacks that can be read.
C1_FailureIsolation ==
    LoopEntered =>
        /\ SameResult(matchingStacks,
                      SearchOnly(SelectSeq(fetched, LAMBDA e : ~Unreadable(e))))
        /\ pc = "done" =>
              /\ exitCode = 0
              /\ Len(fetched) = Len(SelectSeq(stacks, Named))

\* three stacks, the second one's fetch fails, the first and third match
C1_Witness ==
    /\ pc = "done" /\ exitCode = 0
    /\ Len(stacks) = 3 /\ Len(fetched) = 3
    /\ fetched[2].response = FetchError
    /\ Len(matchingStacks) = 2
    /\ matchingStacks[1].stackName = stacks[1].StackName.v
    /\ matchingStacks[2].stackName = stacks[3].StackName.v

\* C2: the stack names of matchingStacks are a subsequence of the input
\* stack list: they sit at strictly increasing positions of it.
C2_InputOrder ==
    \E at \in [ 1..Len(matchingStacks) -> 1..Len(stacks) ] :
        /\ \A k \in 1..Len(matchingStacks) :
              stacks[at[k]].StackName = Name(matchingStacks[k].stackName)
        /\ \A j, k \in 1..Len(matchingStacks) : j < k => at[j] < at[k]

\* s2 before s1 in the input and in the result, an unreadable stack between
C2_Witness ==
    /\ pc = "done"
    /\ Len(stacks) = 3
    /\ stacks[1].StackName = Name("s2") /\ stacks[3].StackName = Name("s1")
    /\ Len(matchingStacks) = 2
    /\ matchingStacks[1].stackName = "s2" /\ matchingStacks[2].stackName = "s1"

\* C3: a --property token without "=" is rejected before any service call,
\* in cfn search and in cfn list.
C3_RejectedBeforeNetwork ==
    (pc = "done" /\ Rejected) => calls = << >>

\* C4 as stated: exit 0 on any search outcome; exit 1 only when there are
\* no stacks to search or the stack list cannot be retrieved (no client, or
\* listStacks fails).
C4_ExitCodes_Original ==
    (pc = "done" /\ InSearchCode) =>
        /\ exitCode \in { 0, 1 }
        /\ LoopEntered => exitCode = 0
        /\ exitCode = 1 => (NoStacksToSearch \/ ListFailed \/ ConfigFailed)

\* C4 amended: exit 0 on any search outcome; exit 1 only when there are no
\* stacks to search, the stack list cannot be retrieved, or a --property
\* token has no "=".
C4_ExitCodes ==
    (pc = "done" /\ InSearchCode) =>
        /\ exitCode \in { 0, 1 }
        /\ LoopEntered => exitCode = 0
        /\ exitCode = 1 => (NoStacksToSearch \/ ListFailed \/ ConfigFailed \/ Rejected)

\* a search over two stacks that ends with zero matches
C4_Witness ==
    /\ pc = "done" /\ command = "search" /\ LoopEntered
    /\ Len(fetched) = 2 /\ matchingStacks = << >>
    /\ exitCode = 0

GetTemplateNames ==
    LET gets == SelectSeq(calls, LAMBDA c : c.op = "GetTemplate") IN
    [ k \in 1..Len(gets) |-> gets[k].name ]

\* C5 as stated: no stacks, no fetch and an empty result; N stacks, exactly
\* N fetch attempts, one per input stack in input order.
C5_FetchAttempts_Original ==
    (pc = "done" /\ SearchRun) =>
        /\ Len(stacks) = 0 => (GetTemplateNames = << >> /\ matchingStacks = << >>)
        /\ LoopEntered =>
              GetTemplateNames = [ k \in 1..Len(stacks) |-> stacks[k].StackName.v ]

\* C5 amended: ... exactly one fetch attempt per input stack that has a
\* name, in input order (a stack whose StackName is nil is skipped without
\* a fetch), regardless of how many of them fail or match.
C5_FetchAttempts ==
    (pc = "done" /\ SearchRun) =>
        /\ Len(stacks) = 0 => (GetTemplateNames = << >> /\ matchingStacks = << >>)
        /\ LoopEntered =>
              GetTemplateNames =
                 [ k \in 1..Len(SelectSeq(stacks, Named)) |->
                     SelectSeq(stacks, Named)[k].StackName.v ]

\* three named stacks: one fails, one matches, one has no match; three fetches
C5_Witness ==
    /\ pc = "done" /\ LoopEntered
    /\ Len(stacks) = 3 /\ \A k \in 1..3 : Named(stacks[k])
    /\ GetTemplateNames = << "s1", "s2", "s1" >>
    /\ Unreadable(fetched[1]) /\ ~Unreadable(fetched[2]) /\ ~Unreadable(fetched[3])
    /\ Len(matchingStacks) = 1

\* C8: in names-only mode of the resource search, standard output is
\* exactly the stack names of the Search Result, one per line, in result
\* order: nothing before the report and nothing else in it.
C8_NamesOnly ==
    (command = "list" /\ isResourceSearch /\ namesOnly) =>
        stdout = IF pc = "done"
                 THEN [ k \in 1..Len(matchingStacks) |-> matchingStacks[k].stackName ]
                 ELSE << >>

\* a names-only run with two stacks in the result
C8_Witness ==
    /\ pc = "done" /\ command = "list" /\ namesOnly
    /\ Len(matchingStacks) = 2
    /\ stdout = << "s1", "s2" >>

\* ------------------------------------------------------------------------
\* C6, C7: the matcher's filter policies
\* ------------------------------------------------------------------------
mResources == resourcesOf(mResponse)

InMatches(id) ==
    \E k \in 1..Len(mResult.matches) : mResult.matches[k].logicalID = id

WellFormed(node) == IsMap(node) /\ IsString(Get(node.m, "Type"))

TypeAdmits(node) ==
    IF mCommand = "list" THEN ~typeSkips(node.m["Type"].s, mResType)
    ELSE ~searchTypeSkips(node.m["Type"].s, mResType)

NameAdmits(id) ==
    mCommand = "list" => (mResName = "" \/ Contains(id, mResName))

\* path resolution as the specification words it: NotFound is told apart
\* from every value, null included
RECURSIVE Resolve(_, _)
Resolve(doc, segments) ==
    IF Len(segments) = 0 THEN [ found |-> TRUE, value |-> doc ]
    ELSE IF ~IsMap(doc) \/ Head(segments) \notin DOMAIN doc.m
         THEN [ found |-> FALSE, value |-> Nil ]
    ELSE Resolve(doc.m[Head(segments)], Tail(segments))

EveryFilterHolds(node) ==
    /\ IsMap(Get(node.m, "Properties"))
    /\ \A key \in DOMAIN mFilters :
          LET r == Resolve(node.m["Properties"], Split(key, ".")) IN
          r.found /\ Sprint(r.value) = mFilters[key]

EveryFilterHoldsNonNull(node) ==
    /\ IsMap(Get(node.m, "Properties"))
    /\ \A key \in DOMAIN mFilters :
          LET r == Resolve(node.m["Properties"], Split(key, ".")) IN
          r.found /\ r.value.tag # "nil" /\ Sprint(r.value) = mFilters[key]

\* C6 as stated: under a non-empty property-filter set a resource (that
\* passes the type and name filters) qualifies if and only if every filter
\* path resolves inside Properties and the stringified value equals the
\* expected string.
C6_AndSemantics_Original ==
    (mpc = "returned" /\ DOMAIN mFilters # {}) =>
        \A id \in DOMAIN mResources :
            LET node == mResources[id] IN
            (WellFormed(node) /\ TypeAdmits(node) /\ NameAdmits(id)) =>
                (InMatches(id) <=> EveryFilterHolds(node))

\* C6 amended: ... every filter path resolves inside Properties to a
\* non-null value whose stringified form equals the expected string (a path
\* that resolves to null fails the filter, also against "<nil>").
C6_AndSemantics ==
    (mpc = "returned" /\ DOMAIN mFilters # {}) =>
        \A id \in DOMAIN mResources :
            LET node == mResources[id] IN
            (WellFormed(node) /\ TypeAdmits(node) /\ NameAdmits(id)) =>
                (InMatches(id) <=> EveryFilterHoldsNonNull(node))

\* both filters supplied, one resource satisfies both and is included, the
\* other satisfies BucketName only and is excluded
C6_Witness ==
    /\ mpc = "returned"
    /\ mFilters = ("BucketName" :> "foo" @@ "Versioning.Status" :> "Enabled")
    /\ DOMAIN mResources = { "LogBucket", "Data" }
    /\ WellFormed(mResources["Data"]) /\ IsMap(Get(mResources["Data"].m, "Properties"))
    /\ getNestedProperty(mResources["Data"].m["Properties"].m, "BucketName") = Str("foo")
    /\ getNestedProperty(mResources["Data"].m["Properties"].m, "Versioning.Status") = Nil
    /\ InMatches("LogBucket") /\ ~InMatches("Data")

PropertiesAdmit(node) ==
    DOMAIN mFilters # {} =>
        /\ IsMap(Get(node.m, "Properties"))
        /\ checkProperties(node.m["Properties"].m, mFilters,
                           CHOOSE o \in Perms(DOMAIN mFilters) : TRUE).matched

\* C7 as stated: in both commands a resource with a string Type (that passes
\* the other filters) is excluded if and only if the type filter is
\* non-empty and differs from Type.
C7_TypeFilter_Original ==
    mpc = "returned" =>
        \A id \in DOMAIN mResources :
            LET node == mResources[id] IN
            (WellFormed(node) /\ NameAdmits(id) /\ PropertiesAdmit(node)) =>
                (~InMatches(id) <=> (mResType # "" /\ node.m["Type"].s # mResType))

\* C7 amended: that holds for cmd list; cmd search has no empty-filter case
\* and excludes a resource if and only if Type differs from the type given.
C7_TypeFilter ==
    mpc = "returned" =>
        \A id \in DOMAIN mResources :
            LET node == mResources[id] IN
            (WellFormed(node) /\ NameAdmits(id) /\ PropertiesAdmit(node)) =>
                (~InMatches(id) <=>
                    IF mCommand = "list"
                    THEN mResType # "" /\ node.m["Type"].s # mResType
                    ELSE node.m["Type"].s # mResType)

\* cmd list, filter AWS::S3::Bucket: the bucket is kept, the bucket policy dropped
C7_Witness ==
    /\ mpc = "returned" /\ mCommand = "list"
    /\ mResType = Bucket /\ mResName = "" /\ DOMAIN mFilters = {}
    /\ DOMAIN mResources = { "LogBucket", "Data" }
    /\ mResources["Data"] = Map("Type" :> Str(BucketPolicy))
    /\ InMatches("LogBucket") /\ ~InMatches("Data")

\* ------------------------------------------------------------------------
\* C9, C10: the status/name combination policy
\* ------------------------------------------------------------------------
NoStatusFlag == ~fFlags.active /\ ~fFlags.complete /\ ~fFlags.deleted /\ ~fFlags.inProgress

\* the policy as the specification words it
PolicyAdmits(stack) ==
    /\ fNameFilter = "" \/ Contains(ToLower(stack.StackName), ToLower(fNameFilter))
    /\ IF NoStatusFlag
       THEN stack.StackStatus # "DELETE_COMPLETE"
       ELSE \/ fFlags.active /\ isActiveStatus(stack.StackStatus)
            \/ fFlags.complete /\ HasSuffix(stack.StackStatus, "_COMPLETE")
            \/ fFlags.deleted /\ HasPrefix(stack.StackStatus, "DELETE_")
            \/ fFlags.inProgress /\ HasSuffix(stack.StackStatus, "_IN_PROGRESS")

C10_DefaultIsActiveOrInProgress ==
    (fpc = "done" /\ NoStatusFlag) =>
        \A k \in 1..Len(filtered) :
            \/ isActiveStatus(filtered[k].StackStatus)
            \/ isInProgressStatus(filtered[k].StackStatus)

\* ------------------------------------------------------------------------
\* C11: nested property resolution
\* ------------------------------------------------------------------------
gSegments == Split(gPath, ".")

\* the value at the end of the first k segments of the path, when each of
\* them is a key of the mapping reached so far
Descends(k) == Resolve(Map(gProperties), SubSeq(gSegments, 1, k)).found

\* C11: getNestedProperty returns the value reached by descending the
\* segments of the path through nested mappings; when some step meets a
\* value that is not a mapping, or a mapping without the segment, it returns
\* NotFound (nil), never the value reached by the steps before it.
C11_NestedResolution ==
    gpc = "returned" =>
        LET r == Resolve(Map(gProperties), gSegments) IN
        /\ r.found => gResult = r.value
        /\ ~r.found => gResult.tag = "nil"

\* BucketName.Status on a Properties whose BucketName is a string: the first
\* segment resolves, the second does not, and the result is NotFound
C11_Witness ==
    /\ gpc = "returned"
    /\ gPath = "BucketName.Status"
    /\ Descends(1) /\ ~Descends(2)
    /\ Get(gProperties, "BucketName") = Str("foo")
    /\ gResult.tag = "nil"

\* ------------------------------------------------------------------------
\* C12: malformed resource entries
\* ------------------------------------------------------------------------
\* the template was fetched and parsed and its Resources is a mapping
HasResources ==
    /\ ~mResponse.err
    /\ mResponse.body.syntax # "empty"
    /\ parseTemplate(mResponse.body).ok
    /\ IsMap(Get(parseTemplate(mResponse.body).template, "Resources"))

\* C12: an entry of Resources whose value is not a mapping, or whose Type is
\* absent or not a string, is never among the matches whatever the filters,
\* never makes searchStackTemplate return an error, and leaves every
\* well-formed entry of the same template matched exactly when it passes the
\* filters.
C12_MalformedSkipped ==
    (mpc = "returned" /\ HasResources) =>
        /\ ~mResult.err
        /\ \A id \in DOMAIN mResources :
              LET node == mResources[id] IN
              IF ~WellFormed(node) THEN ~InMatches(id)
              ELSE InMatches(id) <=>
                      (TypeAdmits(node) /\ NameAdmits(id) /\ PropertiesAdmit(node))

\* a scalar entry beside a bucket, under a property filter: no error, the
\* bucket is matched, the scalar entry is not
C12_Witness ==
    /\ mpc = "returned" /\ HasResources
    /\ DOMAIN mResources = { "LogBucket", "Data" }
    /\ ~IsMap(mResources["LogBucket"])
    /\ WellFormed(mResources["Data"])
    /\ mFilters = ("BucketName" :> "foo")
    /\ ~mResult.err
    /\ InMatches("Data") /\ ~InMatches("LogBucket")

\* ------------------------------------------------------------------------
\* C13: the matched-properties annotation
\* ------------------------------------------------------------------------
\* C13: every Resource Match returned is of a resource that passed the
\* type, name and property filters, and its matched-properties map has
\* exactly the supplied filter paths as keys (dotted, as given), each mapped
\* to the value the path resolves to in the resource's Properties; with no
\* property filter the map is empty.
C13_MatchedProperties ==
    mpc = "returned" =>
        \A k \in 1..Len(mResult.matches) :
            LET match == mResult.matches[k] IN
            /\ match.logicalID \in DOMAIN mResources
            /\ LET node == mResources[match.logicalID] IN
                  /\ WellFormed(node) /\ TypeAdmits(node) /\ NameAdmits(match.logicalID)
                  /\ match.resourceType = node.m["Type"].s
                  /\ DOMAIN match.matchedProperties = DOMAIN mFilters
                  /\ \A key \in DOMAIN mFilters :
                        /\ IsMap(Get(node.m, "Properties"))
                        /\ LET r == Resolve(node.m["Properties"], Split(key, ".")) IN
                              /\ r.found
                              /\ Sprint(r.value) = mFilters[key]
                              /\ match.matchedProperties[key] = r.value

\* a match under a plain and a dotted filter path, annotated with both
C13_Witness ==
    /\ mpc = "returned"
    /\ mFilters = ("BucketName" :> "foo" @@ "Versioning.Status" :> "Enabled")
    /\ Len(mResult.matches) = 1
    /\ mResult.matches[1].matchedProperties =
          ("BucketName" :> Str("foo") @@ "Versioning.Status" :> Str("Enabled"))

\* ------------------------------------------------------------------------
\* C14: Stack Matches are never empty (SpecSearch)
\* ------------------------------------------------------------------------
\* the matches of one fetched template under the run's filters
MatchesOf(e) ==
    searchStackTemplate(command, e.response,
                        CHOOSE o \in Perms(DOMAIN resourcesOf(e.response)) : TRUE,
                        resourceType, resourceName, propertyFilters,
                        CHOOSE o \in Perms(DOMAIN propertyFilters) : TRUE).matches

YieldsMatches(e) == Len(MatchesOf(e)) > 0

\* readable, but without a Resources mapping
NoResources(e) ==
    /\ ~Unreadable(e)
    /\ ~IsMap(Get(parseTemplate(e.response.body).template, "Resources"))

\* C14: at every point of the search loop and in the final result, every
\* Stack Match of matchingStacks has at least one Resource Match, and the
\* Stack Matches are those of the fetched stacks whose template yielded at
\* least one match: a stack with zero matches, or without a Resources
\* mapping, is not among them.
C14_NonEmptyStackMatches ==
    /\ \A k \in 1..Len(matchingStacks) : Len(matchingStacks[k].resources) > 0
    /\ LET yielding == SelectSeq(fetched, YieldsMatches) IN
         [ k \in 1..Len(matchingStacks) |-> matchingStacks[k].stackName ]
            = [ k \in 1..Len(yielding) |-> stacks[yielding[k].index].StackName.v ]

\* three stacks: a template without Resources, one with resources none of
\* which matches, one with a match; only the last is in the result
C14_Witness ==
    /\ pc = "done" /\ Len(fetched) = 3
    /\ NoResources(fetched[1])
    /\ DOMAIN resourcesOf(fetched[2].response) # {} /\ ~YieldsMatches(fetched[2])
    /\ YieldsMatches(fetched[3])
    /\ Len(matchingStacks) = 1
    /\ matchingStacks[1].stackName = stacks[3].StackName.v

\* ------------------------------------------------------------------------
\* C15: the segments of a property-filter path (SpecSearch)
\* ------------------------------------------------------------------------
Segments(path) == Split(path, ".")

\* searchStackTemplate has been called with propertyFilters
ReachedMatcher == Len(fetched) > 0

\* C15: every property filter that reaches the matcher has a path whose
\* segments, the key split on ".", are all non-empty strings.
C15_NonEmptySegments ==
    ReachedMatcher =>
        \A key \in DOMAIN propertyFilters :
            \A k \in 1..Len(Segments(key)) : Segments(key)[k] # ""

\* ------------------------------------------------------------------------
\* C16: iteration-order independence of the matcher
\* ------------------------------------------------------------------------
MatchSet(matches) == { matches[k] : k \in 1..Len(matches) }

\* C16: for a fixed template and fixed filters, every iteration order of
\* the Resources mapping and every iteration order of the property-filter
\* mapping gives the same error outcome and the same set of Resource Matches
\* (logical ID, type, matched properties), each once; only the order of the
\* returned sequence depends on the iteration order.
C16_OrderIndependence ==
    mpc = "returned" =>
        \A rorder \in Perms(DOMAIN mResources), forder \in Perms(DOMAIN mFilters) :
            LET other == searchStackTemplate(mCommand, mResponse, rorder,
                                             mResType, mResName, mFilters, forder)
            IN  /\ other.err = mResult.err
                /\ Len(other.matches) = Len(mResult.matches)
                /\ MatchSet(other.matches) = MatchSet(mResult.matches)

\* two filters, two matching resources, returned with Data before LogBucket
C16_Witness ==
    /\ mpc = "returned"
    /\ mFilters = ("BucketName" :> "foo" @@ "Versioning.Status" :> "Enabled")
    /\ Len(mResult.matches) = 2
    /\ mResult.matches[1].logicalID = "Data"
    /\ mResult.matches[2].logicalID = "LogBucket"

\* ------------------------------------------------------------------------
\* C17: a null leaf under a property filter
\* ------------------------------------------------------------------------
\* some filter path of the call resolves, in the resource's Properties, to
\* an explicit null
NullUnderFilter(node) ==
    /\ IsMap(Get(node.m, "Properties"))
    /\ \E key \in DOMAIN mFilters :
          LET r == Resolve(node.m["Properties"], Split(key, ".")) IN
          r.found /\ r.value.tag = "nil"

\* C17: a resource one of whose filtered property paths resolves to an
\* explicit null is never among the matches, whatever the expected string
\* of that filter (the stringified null "<nil>" included): the null leaf is
\* treated as a missing path.
C17_NullIsMissing ==
    mpc = "returned" =>
        \A id \in DOMAIN mResources :
            LET node == mResources[id] IN
            (WellFormed(node) /\ NullUnderFilter(node)) => ~InMatches(id)

\* the only filter is Tags=<nil>, the bucket's Tags is null and the bucket
\* passes the type and name filters: it is not matched
C17_Witness ==
    /\ mpc = "returned" /\ ~mResult.err
    /\ mFilters = ("Tags" :> "<nil>")
    /\ "Data" \in DOMAIN mResources
    /\ WellFormed(mResources["Data"]) /\ NullUnderFilter(mResources["Data"])
    /\ TypeAdmits(mResources["Data"]) /\ NameAdmits("Data")
    /\ ~InMatches("Data")

====
